---- MODULE Spec2Model ----
(***************************************************************************)
(* The size-constrained encode search of dynamic_badge (src/main.py):      *)
(* MainWindow._make_badge, _cancel_make_badge, the QProcess signal         *)
(* handlers and the three-phase quality search over SizeSearchState.       *)
(*                                                                         *)
(* The window's fields are the state; the file system, the QProcess        *)
(* objects and the user are the environment.  Every handler is a           *)
(* sequential Python method, so each is written as an operator from a      *)
(* state record to a state record, and an action applies one whole         *)
(* handler.  Paths are integers: FinalPath is the output file, a positive  *)
(* integer is the uuid token of a temp path.  Path.unlink(missing_ok=True) *)
(* is taken to succeed (POSIX), and a killed process writes nothing more.  *)
(***************************************************************************)
EXTENDS Integers, Sequences, FiniteSets, TLC

\* ---------------------------------------------------------------- bounds
\* largest slider value the user picks in the model (the slider goes to 100)
MaxQuality == 10
\* largest target in MB the user picks in the model (the spin box goes to 1024)
MaxTargetMb == 2
\* killed or crashed processes whose signals are still undelivered
MaxStale == 1
\* encodes of one run after which the model stops launching
MaxLaunches == 16

\* ------------------------------------------------------ program constants
MiB == 1048576
QualityMin == 1
DefaultMaxAttempts == 12
\* self._quality_slider.setRange(1, 100)
SliderMin == 1
SliderMax == 100
None == -1
FinalPath == 0

\* sizes an encode can report: the smallest target, one byte more, and one
\* byte more than the largest target
Sizes == {MiB, MiB + 1, MaxTargetMb * MiB + 1}

NoSearch == [none |-> TRUE]
NoContent == [kind |-> "absent", q |-> 0, size |-> 0, src |-> 0]
OrigContent == [kind |-> "orig", q |-> 0, size |-> 0, src |-> 0]
NoCommit == [quality |-> None, size |-> None, path |-> None]
EmptyFs == [p \in {} |-> NoContent]

VARIABLES ffmpeg_process, pending_out_path, final_out_path, current_quality,
          ffmpeg_finalized, job_was_canceled, size_search, dialog_open,
          fs, procs, enc, run

vars == <<ffmpeg_process, pending_out_path, final_out_path, current_quality,
          ffmpeg_finalized, job_was_canceled, size_search, dialog_open,
          fs, procs, enc, run>>

\* ------------------------------------------------------------ the encoder
\* enc.mono = FALSE: every encode reports any size; enc.mono = TRUE: the
\* size is the non-decreasing function enc.f of the quality.
AnyEncoder == [mono |-> FALSE, f |-> [q \in 1..MaxQuality |-> 0]]

MonotoneEncoders ==
    {[mono |-> TRUE, f |-> f] : f \in
        {g \in [1..MaxQuality -> Sizes] :
            \A a, b \in 1..MaxQuality : a <= b => g[a] <= g[b]}}

EncoderSizes(e, quality) == IF e.mono THEN {e.f[quality]} ELSE Sizes

\* ------------------------------------------------- observation of one run
\* What one run did, kept beside the program state: the message boxes of
\* _complete_job, the launches, the allocated temp paths, the promotions,
\* whether each measured attempt was within the target (fit), the unlink
\* calls on the temp paths (unlink_calls) and those that removed a file
\* (deleted), the temp paths moved onto the final path (promoted), and
\* whether a signal of a process that is no longer the window's arrived.
NoCount == [p \in {} |-> 0]

CountUp(f, p) == IF p \in DOMAIN f THEN [f EXCEPT ![p] = @ + 1] ELSE (p :> 1) @@ f

IdleRun ==
    [started |-> FALSE, limited |-> FALSE, quality |-> 0, target |-> 0,
     orig |-> NoContent, launches |-> 0, qualities |-> <<>>, alloc |-> {},
     promotions |-> 0, outcome |-> "none", reports |-> 0, note |-> "",
     committed |-> NoCommit, temp_left |-> <<>>, fault |-> "none",
     cancel_phase |-> "none", cancel_path |-> None, cancel_files |-> {},
     launches_end |-> 0, fit |-> <<>>, stale_seen |-> FALSE,
     unlink_calls |-> NoCount, deleted |-> NoCount, promoted |-> {}]

Cur ==
    [ffmpeg_process |-> ffmpeg_process, pending_out_path |-> pending_out_path,
     final_out_path |-> final_out_path, current_quality |-> current_quality,
     ffmpeg_finalized |-> ffmpeg_finalized, job_was_canceled |-> job_was_canceled,
     size_search |-> size_search, dialog_open |-> dialog_open,
     fs |-> fs, procs |-> procs, run |-> run]

Range(seq) == {seq[i] : i \in 1..Len(seq)}

Remove(f, p) == [x \in DOMAIN f \ {p} |-> f[x]]

Min(S) == CHOOSE x \in S : \A y \in S : x <= y

\* ------------------------------------------------------------ file system
\* Path.unlink(missing_ok=True) inside try/except
unlink(s, path) ==
    [s EXCEPT !.fs = Remove(s.fs, path),
              !.run.unlink_calls = IF path \in s.run.alloc THEN CountUp(@, path) ELSE @,
              !.run.deleted = IF path \in s.run.alloc /\ path \in DOMAIN s.fs
                              THEN CountUp(@, path) ELSE @]

RECURSIVE unlink_all(_, _)
unlink_all(s, paths) ==
    IF paths = <<>> THEN s
    ELSE unlink_all(unlink(s, Head(paths)), Tail(paths))

\* every path some part of the state still names
UsedPaths(s) ==
    DOMAIN s.fs \cup {s.fs[p].src : p \in DOMAIN s.fs}
    \cup {s.procs[p].path : p \in DOMAIN s.procs}
    \cup s.run.alloc \cup {s.run.orig.src, s.run.committed.path}
    \cup {s.pending_out_path, s.final_out_path, FinalPath}
    \cup (IF s.size_search = NoSearch THEN {}
          ELSE Range(s.size_search.temp_paths) \cup {s.size_search.best_temp_path})

\* uuid4 token: a path no file, process or field names
new_temp_webp_path(s) == Min({t \in 1..(Cardinality(UsedPaths(s)) + 1) : t \notin UsedPaths(s)})

\* -------------------------------------------------------------- processes
\* QProcess(self): a new process object, no live one has its identity
new_process(s) == Min({p \in 1..(Cardinality(DOMAIN s.procs) + 1) : p \notin DOMAIN s.procs})

Running(s, pid) == pid \in DOMAIN s.procs /\ s.procs[pid].running

\* process objects that are no longer the window's and still have signals to emit
Stale(s) == {p \in DOMAIN s.procs : p # s.ffmpeg_process /\ s.procs[p].sigs # <<>>}

\* the stale process objects in a fixed order: most signals left first
StaleOrder(s) ==
    LET n == Cardinality(Stale(s))
    IN CHOOSE f \in [1..n -> Stale(s)] :
          /\ \A i, j \in 1..n : i # j => f[i] # f[j]
          /\ \A i, j \in 1..n : i < j => Len(s.procs[f[i]].sigs) >= Len(s.procs[f[j]].sigs)

\* deleteLater: an object that is not the window's and has nothing to emit is gone.
\* Process objects are only ever compared for identity, so after every step
\* they are renamed: the window's process is 1, the stale ones follow; what a
\* dead process was encoding no longer matters.
Collect(s) ==
    LET order == StaleOrder(s)
        has == s.ffmpeg_process \in DOMAIN s.procs
    IN [s EXCEPT
          !.ffmpeg_process = IF has THEN 1 ELSE None,
          !.procs = [p \in (IF has THEN {1} ELSE {}) \cup {i + 1 : i \in DOMAIN order} |->
                        IF p = 1 THEN s.procs[s.ffmpeg_process]
                        ELSE [s.procs[order[p - 1]] EXCEPT !.path = None, !.quality = 0,
                                                           !.wrote = FALSE]]]

start_ffmpeg_encode(s, out_path, quality) ==
    LET pid == new_process(s)
    IN [s EXCEPT !.pending_out_path = out_path,
                 !.current_quality = quality,
                 !.ffmpeg_finalized = FALSE,
                 !.ffmpeg_process = pid,
                 !.procs = (pid :> [running |-> TRUE, sigs |-> <<>>, path |-> out_path,
                                    quality |-> quality, wrote |-> FALSE]) @@ s.procs,
                 !.run.launches = @ + 1,
                 !.run.qualities = Append(@, quality)]

dispose_ffmpeg_process(s) ==
    [s EXCEPT !.ffmpeg_process = None,
              !.pending_out_path = None,
              !.current_quality = None]

\* bug: the cancelled flag is not consulted
job_outcome_ignores_cancel(ok, canceled) ==
    IF ok THEN "Success" ELSE "Failed"

\* the message box _complete_job shows
job_outcome(ok, canceled) ==
    IF ok THEN "Success" ELSE IF canceled THEN "Canceled" ELSE "Failed"

\* bug: the process handle is not cleared
complete_job_keeps_process(s, ok, message) ==
    [s EXCEPT !.dialog_open = TRUE,
              !.run.outcome = job_outcome(ok, s.job_was_canceled),
              !.run.reports = @ + 1,
              !.run.note = message,
              !.run.launches_end = s.run.launches]

\* _complete_job up to its message box, which is modal: the box stays open,
\* and the method does not go on, until the user closes it
complete_job(s, ok, message) ==
    [s EXCEPT !.ffmpeg_process = None,
              !.dialog_open = TRUE,
              !.run.outcome = job_outcome(ok, s.job_was_canceled),
              !.run.reports = @ + 1,
              !.run.note = message,
              !.run.launches_end = s.run.launches]

\* bug: the list is cleared, the files stay
cleanup_clears_list_only(s) ==
    IF s.size_search = NoSearch THEN s
    ELSE [s EXCEPT !.size_search.temp_paths = <<>>]

cleanup_size_search_temp_files(s) ==
    IF s.size_search = NoSearch THEN s
    ELSE [unlink_all(s, s.size_search.temp_paths) EXCEPT !.size_search.temp_paths = <<>>]

\* bug: the search state is not dropped
drop_size_search_forgotten(s) == s

\* self._size_search = None; the dropped object's temp_paths is observed
drop_size_search(s) ==
    [s EXCEPT !.size_search = NoSearch,
              !.run.temp_left = IF s.size_search = NoSearch THEN @
                                ELSE s.size_search.temp_paths]

\* (its last statement, self._size_search = None, runs when the box is closed)
finalize_size_search(s, ok, message) ==
    complete_job(dispose_ffmpeg_process(s), ok, message)

\* the box is closed: the rest of _complete_job, then of _finalize_size_search
complete_job_return(s) ==
    drop_size_search([s EXCEPT !.dialog_open = FALSE,
                               !.pending_out_path = None,
                               !.final_out_path = None,
                               !.current_quality = None,
                               !.ffmpeg_finalized = FALSE,
                               !.job_was_canceled = FALSE])

abort_job(s, message) ==
    complete_job(drop_size_search(cleanup_size_search_temp_files(s)), FALSE, message)

\* bug: the paths are taken for cleared
finish_success_single_no_path(s) == abort_job(s, "no_out_path")

finish_success_single(s) ==
    IF s.final_out_path = None /\ s.pending_out_path = None
    THEN abort_job(s, "no_out_path")
    ELSE complete_job(s, TRUE, "single")

\* bug: the best artifact is copied, not moved
replace_copies(s, best_path, final_path) ==
    [s EXCEPT !.fs = (final_path :> s.fs[best_path]) @@ s.fs,
              !.run.promotions = @ + 1,
              !.run.promoted = @ \cup {best_path}]

\* best_path.replace(final_path)
replace(s, best_path, final_path) ==
    [s EXCEPT !.fs = (final_path :> s.fs[best_path]) @@ Remove(s.fs, best_path),
              !.run.promotions = @ + 1,
              !.run.promoted = @ \cup {best_path}]

apply_best_size_search_result(s, note, replaceFault) ==
    LET state == s.size_search
    IN IF state = NoSearch
       THEN finalize_size_search(cleanup_size_search_temp_files(s), FALSE, "no_result")
       ELSE IF state.best_temp_path = None \/ state.best_quality \in {None, 0}
       THEN finalize_size_search(cleanup_size_search_temp_files(s), FALSE, "no_result")
       ELSE LET final_path == state.final_path
                best_path == state.best_temp_path
            IN IF replaceFault \/ best_path \notin DOMAIN s.fs
               THEN finalize_size_search(
                        cleanup_size_search_temp_files(
                            [s EXCEPT !.run.fault = IF best_path \in DOMAIN s.fs
                                                    THEN "replace" ELSE "missing"]),
                        FALSE, "save_failed")
               ELSE LET s1 == replace(s, best_path, final_path)
                        others == SelectSeq(state.temp_paths, LAMBDA p : p # best_path)
                        s2 == cleanup_size_search_temp_files(unlink_all(s1, others))
                        s3 == [s2 EXCEPT !.run.committed =
                                  [quality |-> state.best_quality,
                                   size |-> state.best_size_bytes,
                                   path |-> best_path]]
                    IN finalize_size_search(s3, TRUE, note)

\* ------------------------------------------------------------- the search
\* bug: the search starts in the quality_min phase
SizeSearchState_starts_test_min(target_bytes, quality_min, quality_max, final_path) ==
    [target_bytes |-> target_bytes, quality_min |-> quality_min,
     quality_max |-> quality_max, final_path |-> final_path,
     phase |-> "test_min", low |-> quality_min, high |-> quality_max,
     attempt |-> 0, max_attempts |-> DefaultMaxAttempts,
     best_quality |-> None, best_size_bytes |-> None, best_temp_path |-> None,
     temp_paths |-> <<>>]

SizeSearchState(target_bytes, quality_min, quality_max, final_path) ==
    [target_bytes |-> target_bytes, quality_min |-> quality_min,
     quality_max |-> quality_max, final_path |-> final_path,
     phase |-> "test_max", low |-> quality_min, high |-> quality_max,
     attempt |-> 0, max_attempts |-> DefaultMaxAttempts,
     best_quality |-> None, best_size_bytes |-> None, best_temp_path |-> None,
     temp_paths |-> <<>>]

\* bug: the attempt is encoded onto the final path
launch_final_encode(s, q) == start_ffmpeg_encode(s, s.final_out_path, q)

\* new_temp = self._new_temp_webp_path(...); state.temp_paths.append(new_temp);
\* self._start_ffmpeg_encode(out_path=new_temp, quality=q)
launch_temp_encode(s, q) ==
    LET new_temp == new_temp_webp_path(s)
        s1 == [s EXCEPT !.size_search.temp_paths = Append(@, new_temp),
                        !.run.alloc = @ \cup {new_temp}]
    IN start_ffmpeg_encode(s1, new_temp, q)

\* bug: the interval is walked from its low end
binary_mid_low(low, high) == low

\* bug: the interval is walked from its high end
binary_mid_high(low, high) == high

binary_mid(low, high) == (low + high) \div 2

\* bug: the method returns before it launches
start_next_binary_search_attempt_returns(s) == s

start_next_binary_search_attempt(s) ==
    IF s.size_search = NoSearch THEN s
    ELSE LET s1 == [s EXCEPT !.size_search.attempt = @ + 1]
         IN launch_temp_encode(s1, binary_mid(s1.size_search.low, s1.size_search.high))

\* bug: a size equal to the target counts as over it
within_target_strict(size_bytes, target_bytes) == size_bytes < target_bytes

within_target(size_bytes, target_bytes) == size_bytes <= target_bytes

\* bug: best_size_bytes is not updated with the rest
set_best_keeps_size(s, quality, size_bytes, temp_path) ==
    [s EXCEPT !.size_search.best_quality = quality,
              !.size_search.best_temp_path = temp_path]

set_best(s, quality, size_bytes, temp_path) ==
    [s EXCEPT !.size_search.best_quality = quality,
              !.size_search.best_size_bytes = size_bytes,
              !.size_search.best_temp_path = temp_path]

\* bug: the phase is not advanced
phase_stays_test_max == "test_max"

phase_after_test_max == "test_min"

handle_test_max(s, temp_path, quality, size_bytes, replaceFault) ==
    LET state == s.size_search
    IN IF within_target(size_bytes, state.target_bytes)
       THEN apply_best_size_search_result(
                set_best(s, quality, size_bytes, temp_path), "met_max", replaceFault)
       ELSE LET s1 == unlink(s, temp_path)
                s2 == [s1 EXCEPT !.size_search.phase = phase_after_test_max]
            IN launch_temp_encode(s2, state.quality_min)

\* bug: the interval starts at the quality_min probe itself
first_low_includes_min(quality_min) == quality_min

\* state.low = state.quality_min + 1
first_low(quality_min) == quality_min + 1

\* bug: the interval ends at the quality_max probe itself
first_high_includes_max(quality_max) == quality_max

\* state.high = state.quality_max - 1
first_high(quality_max) == quality_max - 1

handle_test_min(s, temp_path, quality, size_bytes, replaceFault) ==
    LET s1 == set_best(s, quality, size_bytes, temp_path)
    IN IF ~within_target(size_bytes, s1.size_search.target_bytes)
       THEN apply_best_size_search_result(s1, "unattainable", replaceFault)
       ELSE LET s2 == [s1 EXCEPT !.size_search.phase = "binary",
                                 !.size_search.low = first_low(s1.size_search.quality_min),
                                 !.size_search.high = first_high(s1.size_search.quality_max)]
            IN IF s2.size_search.low > s2.size_search.high
               THEN apply_best_size_search_result(s2, "met_min", replaceFault)
               ELSE start_next_binary_search_attempt(s2)

\* bug: the size is not compared with the target
binary_adopts_any_size(state, quality, size_bytes) ==
    state.best_quality = None \/ quality > state.best_quality

\* bug: an attempt is adopted only while no best is recorded
binary_adopts_first_only(state, quality, size_bytes) ==
    /\ within_target(size_bytes, state.target_bytes)
    /\ state.best_quality = None

binary_adopts(state, quality, size_bytes) ==
    /\ within_target(size_bytes, state.target_bytes)
    /\ (state.best_quality = None \/ quality > state.best_quality)

\* bug: the interval keeps the adopted quality
narrow_low_keeps(quality) == quality

narrow_low(quality) == quality + 1

\* bug: the interval drops one quality too many
narrow_high_skips(quality) == quality - 2

narrow_high(quality) == quality - 1

attempts_exhausted(state) == state.attempt >= state.max_attempts

\* bug: the artifact of the previous best is left on disk
previous_best_kept(state, temp_path) == FALSE

\* if state.best_temp_path and state.best_temp_path != temp_path:
previous_best_unlinked(state, temp_path) ==
    state.best_temp_path # None /\ state.best_temp_path # temp_path

\* bug: a discarded attempt deletes the artifact of the best
discarded_path_is_best(state, temp_path) == state.best_temp_path

\* the path the else branch unlinks: temp_path
discarded_path(state, temp_path) == temp_path

handle_binary(s, temp_path, quality, size_bytes, replaceFault) ==
    LET state == s.size_search
        s1 == IF binary_adopts(state, quality, size_bytes)
              THEN LET u == IF previous_best_unlinked(state, temp_path)
                            THEN unlink(s, state.best_temp_path)
                            ELSE s
                   IN [set_best(u, quality, size_bytes, temp_path)
                         EXCEPT !.size_search.low = narrow_low(quality)]
              ELSE unlink([s EXCEPT !.size_search.high = narrow_high(quality)],
                          discarded_path(state, temp_path))
    IN IF s1.size_search.low > s1.size_search.high
       THEN apply_best_size_search_result(s1, "best", replaceFault)
       ELSE IF attempts_exhausted(s1.size_search)
       THEN apply_best_size_search_result(s1, "max_attempts", replaceFault)
       ELSE start_next_binary_search_attempt(s1)

\* bug: the exit status is not looked at
attempt_failed_ignored(ok) == FALSE

\* if not ok:
attempt_failed(ok) == ~ok

\* ok: the exit was normal with code 0; statFault: temp_path.stat() raises
handle_size_search_attempt(s, ok, statFault, replaceFault) ==
    LET state == s.size_search
        temp_path == s.pending_out_path
        quality == s.current_quality
        s0 == dispose_ffmpeg_process(s)
    IN IF state = NoSearch \/ temp_path = None \/ quality = None
       THEN finalize_size_search(s0, FALSE, "internal")
       ELSE IF attempt_failed(ok)
       THEN finalize_size_search(cleanup_size_search_temp_files(s0), FALSE, "ffmpeg_failed")
       ELSE IF statFault \/ temp_path \notin DOMAIN s0.fs
       THEN finalize_size_search(
                cleanup_size_search_temp_files([s0 EXCEPT !.run.fault = "stat"]),
                FALSE, "stat_failed")
       ELSE LET size_bytes == s0.fs[temp_path].size
            IN CASE state.phase = "test_max" ->
                        handle_test_max(s0, temp_path, quality, size_bytes, replaceFault)
                 [] state.phase = "test_min" ->
                        handle_test_min(s0, temp_path, quality, size_bytes, replaceFault)
                 [] state.phase = "binary" ->
                        handle_binary(s0, temp_path, quality, size_bytes, replaceFault)
                 [] OTHER ->
                        finalize_size_search(cleanup_size_search_temp_files(s0),
                                             FALSE, "unknown_phase")

\* -------------------------------------------------------- signal handlers
\* bug: the emitting process object is not compared with the window's
from_other_process_never(s, sender) == FALSE

\* sender is not None and sender != self._ffmpeg_process;
\* sender: the process object that emitted the signal
from_other_process(s, sender) == sender # None /\ sender # s.ffmpeg_process

on_ffmpeg_error(s, sender) ==
    IF from_other_process(s, sender) THEN s
    ELSE IF s.ffmpeg_process = None THEN s
    ELSE IF s.ffmpeg_finalized THEN s
    ELSE abort_job([s EXCEPT !.ffmpeg_finalized = TRUE], "ffmpeg_error")

on_ffmpeg_finished(s, sender, ok, statFault, replaceFault) ==
    IF from_other_process(s, sender) THEN s
    ELSE IF s.ffmpeg_finalized THEN s
    ELSE LET s1 == [s EXCEPT !.ffmpeg_finalized = TRUE]
         IN IF s1.size_search # NoSearch
            THEN handle_size_search_attempt(s1, ok, statFault, replaceFault)
            ELSE IF ok THEN finish_success_single(s1)
            ELSE abort_job(s1, "ffmpeg_failed")

\* ------------------------------------------------------------ user actions
\* bug: only the in-flight path is unlinked
cancel_unlinks_pending_only(pending, final) == <<pending>>

\* the paths _cancel_make_badge unlinks after the temp files
cancel_unlink_paths(pending, final) == <<pending, final>>

\* bug: the cancelled flag is set before the check for a running process
cancel_without_process_marks(s) == [s EXCEPT !.job_was_canceled = TRUE]

\* the early return of _cancel_make_badge
cancel_without_process(s) == s

cancel_make_badge(s) ==
    IF s.ffmpeg_process = None \/ ~Running(s, s.ffmpeg_process)
    THEN cancel_without_process(s)
    ELSE LET pid == s.ffmpeg_process
             pending == s.pending_out_path
             final == s.final_out_path
             s1 == [s EXCEPT !.job_was_canceled = TRUE,
                             !.ffmpeg_finalized = TRUE,
                             \* kill(): the process dies; Qt has Crashed and
                             \* finished(CrashExit) to emit for it
                             !.procs[pid].running = FALSE,
                             !.procs[pid].sigs = <<"error", "finished">>,
                             !.run.cancel_phase =
                                 IF s.size_search = NoSearch THEN "single"
                                 ELSE s.size_search.phase,
                             !.run.cancel_path = pending,
                             !.run.cancel_files = DOMAIN s.fs]
             s2 == dispose_ffmpeg_process(
                       drop_size_search(cleanup_size_search_temp_files(s1)))
             s3 == unlink_all(s2, SelectSeq(cancel_unlink_paths(pending, final),
                                            LAMBDA p : p # None))
         IN complete_job(s3, FALSE, "canceled")

\* what the observation of a run starts from
NewRun(s, limited, quality, target_bytes) ==
    [IdleRun EXCEPT !.started = TRUE, !.limited = limited, !.quality = quality,
                    !.target = target_bytes,
                    !.orig = IF FinalPath \in DOMAIN s.fs THEN OrigContent
                             ELSE NoContent,
                    !.temp_left = IF limited THEN <<None>> ELSE <<>>]

\* quality: the slider; limited, target_mb: the size limit check box and spin
\* box; overwrite: the answer to the "file exists" question
\* bug: a request is accepted while an encode is running
make_badge_never_busy(s) == FALSE

\* self._ffmpeg_process and self._ffmpeg_process.state() != QProcess.NotRunning
make_badge_busy(s) == s.ffmpeg_process # None /\ Running(s, s.ffmpeg_process)

make_badge(s, quality, limited, target_mb, overwrite) ==
    LET out_path == FinalPath
    IN IF out_path \in DOMAIN s.fs /\ ~overwrite THEN s
       ELSE IF make_badge_busy(s) THEN s
       ELSE LET s1 == [s EXCEPT !.final_out_path = out_path,
                                !.size_search = NoSearch,
                                !.job_was_canceled = FALSE,
                                \* contents are named relative to the run: what is
                                \* on disk when it starts is the original content
                                !.fs = [p \in DOMAIN s.fs |-> OrigContent]]
            IN IF limited
               THEN LET target_bytes == target_mb * MiB
                        quality_min == QualityMin
                        quality_max == IF quality > quality_min THEN quality
                                       ELSE quality_min
                        s2 == [s1 EXCEPT
                                 !.size_search = SizeSearchState(
                                     target_bytes, quality_min, quality_max, out_path),
                                 !.run = NewRun(s, TRUE, quality_max, target_bytes)]
                    IN launch_temp_encode(s2, quality_max)
               ELSE start_ffmpeg_encode(
                        [s1 EXCEPT !.run = NewRun(s, FALSE, quality, 0)],
                        out_path, quality)

\* ----------------------------------------------------------------- actions
Becomes(s0) ==
    LET s == Collect(s0)
    IN /\ s.run.launches <= MaxLaunches
       /\ ffmpeg_process' = s.ffmpeg_process
       /\ pending_out_path' = s.pending_out_path
       /\ final_out_path' = s.final_out_path
       /\ current_quality' = s.current_quality
       /\ ffmpeg_finalized' = s.ffmpeg_finalized
       /\ job_was_canceled' = s.job_was_canceled
       /\ size_search' = s.size_search
       /\ dialog_open' = s.dialog_open
       /\ fs' = s.fs
       /\ procs' = s.procs
       /\ run' = s.run
       /\ enc' = enc

\* the user clicks "make"; an input that the call does not read has one value
MakeBadge ==
    LET busy == Running(Cur, ffmpeg_process)
    IN ~dialog_open /\ \E limited \in (IF busy THEN {FALSE} ELSE BOOLEAN),
          overwrite \in (IF FinalPath \in DOMAIN fs THEN BOOLEAN ELSE {TRUE}) :
         \E quality \in (IF busy \/ ~overwrite THEN {1} ELSE 1..MaxQuality),
            target_mb \in (IF limited /\ overwrite THEN 1..MaxTargetMb ELSE {1}) :
            Becomes(make_badge(Cur, quality, limited, target_mb, overwrite))

\* the user clicks "cancel"; a kill leaves signals to deliver
CancelMakeBadge ==
    /\ ~dialog_open
    /\ (Running(Cur, ffmpeg_process) => Cardinality(Stale(Cur)) < MaxStale)
    /\ Becomes(cancel_make_badge(Cur))

\* the running encoder creates or truncates its output file
ProcessWrites ==
    /\ Running(Cur, ffmpeg_process)
    /\ ~procs[ffmpeg_process].wrote
    /\ LET p == procs[ffmpeg_process]
       IN Becomes([Cur EXCEPT
              !.procs[ffmpeg_process].wrote = TRUE,
              !.fs = (p.path :> [kind |-> "partial", q |-> p.quality,
                                 size |-> 0, src |-> p.path]) @@ Remove(Cur.fs, p.path)])

\* the encoder exits normally with code 0, its output written: finished(0, NormalExit);
\* statFaults, replaceFaults: whether stat() and replace() can raise
FinishedOk(statFaults, replaceFaults) ==
    /\ Running(Cur, ffmpeg_process)
    /\ LET p == procs[ffmpeg_process]
       IN \E statFault \in statFaults, replaceFault \in replaceFaults :
          \E size_bytes \in (IF statFault THEN {MiB} ELSE EncoderSizes(enc, p.quality)) :
            Becomes(on_ffmpeg_finished(
                [Cur EXCEPT
                   !.procs[ffmpeg_process].running = FALSE,
                   !.fs = (p.path :> [kind |-> "artifact", q |-> p.quality,
                                      size |-> size_bytes, src |-> p.path])
                          @@ Remove(Cur.fs, p.path),
                   !.run.fit = IF run.limited /\ ~statFault
                               THEN Append(@, size_bytes <= run.target) ELSE @],
                ffmpeg_process, TRUE, statFault, replaceFault))

ProcessFinishedOk == FinishedOk(BOOLEAN, BOOLEAN)

\* the same where the file system does not fail
ProcessFinishedClean == FinishedOk({FALSE}, {FALSE})

\* the encoder exits with a non-zero code: finished(code, NormalExit)
ProcessFinishedBad ==
    /\ Running(Cur, ffmpeg_process)
    /\ Becomes(on_ffmpeg_finished(
           [Cur EXCEPT !.procs[ffmpeg_process].running = FALSE,
                       !.run.fault = "encode"],
           ffmpeg_process, FALSE, FALSE, FALSE))

\* the encoder fails to start: errorOccurred(FailedToStart), no finished signal
ProcessFailedToStart ==
    /\ Running(Cur, ffmpeg_process)
    /\ ~procs[ffmpeg_process].wrote
    /\ Becomes(on_ffmpeg_error(
           [Cur EXCEPT !.procs[ffmpeg_process].running = FALSE,
                       !.run.fault = "encode"],
           ffmpeg_process))

\* the encoder crashes: errorOccurred(Crashed) now, finished(CrashExit) after it
ProcessCrashed ==
    /\ Running(Cur, ffmpeg_process)
    /\ Cardinality(Stale(Cur)) < MaxStale
    /\ Becomes(on_ffmpeg_error(
           [Cur EXCEPT !.procs[ffmpeg_process].running = FALSE,
                       !.procs[ffmpeg_process].sigs = <<"finished">>,
                       !.run.fault = "encode"],
           ffmpeg_process))

\* a process that is not running emits its next signal
DeliverSignal ==
    \E pid \in DOMAIN procs :
        /\ ~procs[pid].running
        /\ procs[pid].sigs # <<>>
        /\ LET s == [Cur EXCEPT !.procs[pid].sigs = Tail(@),
                                !.run.stale_seen = TRUE]
           IN IF Head(procs[pid].sigs) = "error"
              THEN Becomes(on_ffmpeg_error(s, pid))
              ELSE Becomes(on_ffmpeg_finished(s, pid, FALSE, FALSE, FALSE))

\* deleteLater takes effect before the object emitted its signals
ProcessDeleted ==
    \E pid \in Stale(Cur) :
        Becomes([Cur EXCEPT !.procs[pid].sigs = <<>>])

\* the user closes the message box of _complete_job; the observation of the
\* run ends with it
DialogClosed ==
    /\ dialog_open
    /\ Becomes([complete_job_return(Cur) EXCEPT !.run = IdleRun])

InitWindow ==
    /\ ffmpeg_process = None
    /\ pending_out_path = None
    /\ final_out_path = None
    /\ current_quality = None
    /\ ffmpeg_finalized = FALSE
    /\ job_was_canceled = FALSE
    /\ size_search = NoSearch
    /\ dialog_open = FALSE
    /\ fs \in {EmptyFs, (FinalPath :> OrigContent)}
    /\ procs = [p \in {} |-> 0]
    /\ run = IdleRun

Init == InitWindow /\ enc = AnyEncoder

InitMono == InitWindow /\ enc \in MonotoneEncoders

Next ==
    \/ MakeBadge
    \/ CancelMakeBadge
    \/ ProcessWrites
    \/ ProcessFinishedOk
    \/ ProcessFinishedBad
    \/ ProcessFailedToStart
    \/ ProcessCrashed
    \/ DeliverSignal
    \/ ProcessDeleted
    \/ DialogClosed

Spec == Init /\ [][Next]_vars

\* a running encode ends: finished or errorOccurred is emitted for it
Completion ==
    \/ ProcessFinishedOk
    \/ ProcessFinishedBad
    \/ ProcessFailedToStart
    \/ ProcessCrashed

\* runs without cancellation and without failure, over a monotone encoder
NextMono ==
    \/ MakeBadge
    \/ ProcessWrites
    \/ ProcessFinishedClean
    \/ DialogClosed

SpecMono == InitMono /\ [][NextMono]_vars

\* the user clicks "make" with the size limit checked, the slider anywhere in
\* its range, and confirms the overwrite question if it is asked
MakeBadgeSlider ==
    /\ ~dialog_open
    /\ ~Running(Cur, ffmpeg_process)
    /\ \E quality \in SliderMin..SliderMax, target_mb \in 1..MaxTargetMb :
           Becomes(make_badge(Cur, quality, TRUE, target_mb, TRUE))

\* constrained runs over the slider's whole range, without cancellation and
\* without failure, every encode reporting any size
NextSlider ==
    \/ MakeBadgeSlider
    \/ ProcessFinishedClean
    \/ DialogClosed

SpecSlider == Init /\ [][NextSlider]_vars

\* ------------------------------------------------------------------ claims
\* A run has reported its outcome while the message box of _complete_job is
\* open; a constrained run that reported through _finalize_size_search still
\* has its SizeSearchState then.
Terminal == run.outcome # "none"

Done == run.limited /\ run.outcome = "Success"

Max(S) == CHOOSE x \in S : \A y \in S : x >= y

\* C1: every size-constrained run that ends Done committed a result with
\* best_size_bytes <= target_bytes or best_quality = quality_min, whatever
\* sizes the encoder reported.
C1_DoneWithinTargetOrMinimum ==
    Done =>
        /\ size_search # NoSearch
        /\ run.committed.quality = size_search.best_quality
        /\ run.committed.size = size_search.best_size_bytes
        /\ \/ size_search.best_size_bytes <= size_search.target_bytes
           \/ size_search.best_quality = size_search.quality_min

\* a Done run on the unattainable branch, after a run that was not monotone
C1_Witness ==
    /\ Done
    /\ size_search # NoSearch
    /\ size_search.best_quality = size_search.quality_min
    /\ size_search.best_size_bytes > size_search.target_bytes
    /\ run.note = "unattainable"

\* C2: the encodes launched in one size-constrained run (both probes and the
\* binary attempts) never exceed 2 + max_attempts, and the binary counter
\* attempt never exceeds max_attempts.
C2_BoundedAttempts ==
    run.limited =>
        /\ run.launches <= 2 + DefaultMaxAttempts
        /\ size_search # NoSearch =>
              /\ size_search.attempt <= size_search.max_attempts
              /\ run.launches <= 2 + size_search.attempt

\* a run in its second binary attempt, after both probes
C2_Witness ==
    /\ run.limited
    /\ size_search # NoSearch
    /\ size_search.phase = "binary"
    /\ size_search.attempt = 2
    /\ run.launches = 4

\* the largest quality of the range whose size is within the target
LargestWithin(f, lo, hi, target) == Max({q \in lo..hi : f[q] <= target})

\* C3: over an encoder whose size is non-decreasing in the quality, with
\* size(quality_min) <= target_bytes < size(quality_max), a run without
\* failure and cancellation ends Done with the largest quality whose size is
\* within the target, so the next quality is over it.
C3_MonotoneFindsLargest ==
    (/\ Terminal
     /\ run.limited
     /\ enc.mono
     /\ enc.f[QualityMin] <= run.target
     /\ run.target < enc.f[run.quality])
    => /\ run.outcome = "Success"
       /\ run.committed.quality = LargestWithin(enc.f, QualityMin, run.quality, run.target)
       /\ enc.f[run.committed.quality] <= run.target
       /\ enc.f[run.committed.quality + 1] > run.target

\* a Done run whose committed quality lies strictly between the two probes
C3_Witness ==
    /\ Done
    /\ enc.mono
    /\ enc.f[QualityMin] <= run.target
    /\ run.target < enc.f[run.quality]
    /\ run.committed.quality > QualityMin + 1
    /\ run.committed.quality < run.quality - 1

C6_OneAttemptWhenMinIsMax ==
    (run.limited /\ run.quality = QualityMin) => run.launches <= 1

\* C7: a constrained run cancelled in the binary phase leaves a file that was
\* at the final destination before the run untouched.
C7_CancelKeepsOriginal ==
    (/\ run.limited
     /\ run.outcome = "Canceled"
     /\ run.cancel_phase = "binary"
     /\ run.orig = OrigContent)
    => /\ FinalPath \in DOMAIN fs
       /\ fs[FinalPath] = OrigContent

C9_CancelEndsCanceled ==
    /\ run.cancel_phase # "none" =>
          /\ run.outcome = "Canceled"
          /\ run.reports = 1
          /\ run.promotions = 0
          /\ ffmpeg_process = None
          /\ run.launches = run.launches_end
    /\ run.outcome = "Canceled" => run.cancel_phase # "none"

\* a cancellation in the binary phase
C9_Witness ==
    /\ run.outcome = "Canceled"
    /\ run.cancel_phase = "binary"
    /\ run.launches = 4

\* C10: an attempt of a constrained run that fails (no start, crash, non-zero
\* exit) or whose size cannot be read ends the run Failed at once: no further
\* encode, no promotion, also when a best within the target was recorded.
C10_FailureEndsFailed ==
    (run.limited /\ run.fault \in {"encode", "stat"}) =>
        /\ run.outcome = "Failed"
        /\ run.reports = 1
        /\ run.promotions = 0
        /\ ffmpeg_process = None
        /\ run.launches = run.launches_end
        /\ FinalPath \in DOMAIN fs => fs[FinalPath] = run.orig

\* a non-zero exit in the binary phase after a best within the target was recorded
C10_Witness ==
    /\ run.limited
    /\ run.fault = "encode"
    /\ run.outcome = "Failed"
    /\ size_search # NoSearch
    /\ size_search.phase = "binary"
    /\ size_search.best_quality # None
    /\ size_search.best_size_bytes <= size_search.target_bytes

\* the process objects that are running
RunningProcesses == {p \in DOMAIN procs : procs[p].running}

\* a step that starts an encode
Launches == run'.qualities # run.qualities /\ run'.qualities # <<>>

\* C11: at most one encode process is outstanding at any moment; an encode
\* is started only by a request made while none is running or by the
\* completion handling of the run's previous encode, and a request made while
\* one is running starts nothing.
C11_OneOutstanding ==
    /\ [](/\ Cardinality(RunningProcesses) <= 1
          /\ RunningProcesses \subseteq {ffmpeg_process})
    /\ [][Launches =>
             IF Running(Cur, ffmpeg_process)
             THEN /\ ProcessFinishedOk
                  /\ run.limited
                  /\ run'.qualities = Append(run.qualities, current_quality')
             ELSE MakeBadge /\ run'.launches = 1]_vars

\* the third encode of a constrained run is running, started by the
\* completion handling of the second
C11_Witness ==
    /\ run.limited
    /\ run.launches = 3
    /\ RunningProcesses = {ffmpeg_process}
    /\ Len(run.fit) = 2

\* C12: a finished or error signal of a killed process that arrives after the
\* cancellation changes nothing: no phase processing, no launch, no file
\* operation, no second report, also when a new run is under way.
C12_StaleSignalIgnored ==
    [][DeliverSignal =>
          /\ UNCHANGED <<ffmpeg_process, pending_out_path, final_out_path,
                         current_quality, ffmpeg_finalized, job_was_canceled,
                         size_search, dialog_open, fs, enc>>
          /\ run' = [run EXCEPT !.stale_seen = TRUE]
          /\ RunningProcesses' = RunningProcesses
          /\ \A p \in RunningProcesses : procs'[p] = procs[p]]_vars

\* the error signal of a killed process has arrived during a new constrained
\* run, whose second encode is running; its finished signal is still to come
C12_Witness ==
    /\ run.stale_seen
    /\ run.limited
    /\ run.launches = 2
    /\ RunningProcesses = {ffmpeg_process}
    /\ \E p \in DOMAIN procs \ {ffmpeg_process} : procs[p].sigs = <<"finished">>
    /\ ~ffmpeg_finalized

\* no encode is in flight: before any run, or after the run reported its outcome
NoEncodeInFlight == ~run.started \/ run.outcome # "none"

\* C13: a cancel request when no encode is in flight (before any run, after a
\* run has ended, a second time after a cancel) changes no state, deletes no
\* file and reports nothing.
C13_CancelIdempotent ==
    NoEncodeInFlight => cancel_make_badge(Cur) = Cur

\* the window is idle after a cancelled run whose output file was on disk and
\* whose killed process has not yet emitted its signals
C13_Witness ==
    /\ ~run.started
    /\ ~dialog_open
    /\ ffmpeg_process = None
    /\ \E p \in DOMAIN procs : procs[p].sigs = <<"error", "finished">>
    /\ FinalPath \notin DOMAIN fs

\* the qualities of the run whose measured size was within the target
FitQualities == {run.qualities[i] : i \in {j \in 1..Len(run.fit) : run.fit[j]}}

\* C14: whatever sizes the encoder reports, monotone or not, a constrained
\* run that ends Done after at least one attempt within the target commits
\* the largest quality among the attempted qualities whose size was within it.
C14_DoneCommitsLargestFit ==
    (Done /\ FitQualities # {}) =>
        /\ run.committed.quality = Max(FitQualities)
        /\ fs[FinalPath].q = Max(FitQualities)
        /\ fs[FinalPath].size <= run.target

\* a Done run with three attempts within the target and two over it
C14_Witness ==
    /\ Done
    /\ Cardinality(FitQualities) = 3
    /\ Len(run.fit) = 5
    /\ run.committed.quality = Max(FitQualities)

\* the least k with 2^k >= n
CeilLog2(n) == Min({k \in 0..n : 2^k >= n})

\* C15: over an encoder whose size is non-decreasing in the quality, a
\* constrained run launches at most ceil(log2(range)) + 2 encodes, both probes
\* included, where range = quality_max - quality_min + 1.
C15_LogarithmicLaunches ==
    (run.limited /\ enc.mono) =>
        run.launches <= CeilLog2(run.quality - QualityMin + 1) + 2

\* a Done run over the largest range that used every launch the bound allows
C15_Witness ==
    /\ Done
    /\ enc.mono
    /\ run.quality = MaxQuality
    /\ run.launches = CeilLog2(run.quality - QualityMin + 1) + 2

\* both probes were measured and both were over the target
BothProbesOver == Len(run.fit) >= 2 /\ ~run.fit[1] /\ ~run.fit[2]

C18_QualityLaunchedOnce ==
    run.limited =>
        \A i, j \in 1..Len(run.qualities) :
            i # j => run.qualities[i] # run.qualities[j]

\* how often a temp path was passed to unlink, how often an unlink removed
\* its file, and whether it was moved onto the final path
UnlinkCalls(p) == IF p \in DOMAIN run.unlink_calls THEN run.unlink_calls[p] ELSE 0

Deletions(p) == IF p \in DOMAIN run.deleted THEN run.deleted[p] ELSE 0

Promotions(p) == IF p \in run.promoted THEN 1 ELSE 0

C20_PromoteFailureKeepsBest ==
    (run.limited /\ run.fault = "replace") =>
        /\ run.outcome = "Failed"
        /\ run.reports = 1
        /\ size_search # NoSearch
        /\ size_search.best_temp_path \in DOMAIN fs

\* the search state is there and a best is recorded
BestSet == size_search # NoSearch /\ size_search.best_quality # None

\* the recorded best of the search state
Best(ss) == <<ss.best_quality, ss.best_size_bytes, ss.best_temp_path>>

FinalContent == IF FinalPath \in DOMAIN fs THEN fs[FinalPath] ELSE NoContent

\* C22: with size limiting off a run launches exactly one encode, at the
\* chosen quality and onto the final destination, with no search state and
\* no temp path, and its completion is reported directly, as success when the
\* encoder succeeded and as failure (or cancellation) otherwise, with no
\* further launch.
C22_UnconstrainedSingleEncode ==
    (run.started /\ ~run.limited) =>
        /\ run.launches = 1
        /\ run.qualities = <<run.quality>>
        /\ size_search = NoSearch
        /\ run.alloc = {}
        /\ DOMAIN fs \subseteq {FinalPath}
        /\ RunningProcesses # {} =>
              /\ pending_out_path = FinalPath
              /\ procs[ffmpeg_process].path = FinalPath
              /\ procs[ffmpeg_process].quality = run.quality
              /\ ~Terminal
        /\ RunningProcesses = {} => Terminal /\ run.reports = 1
        /\ Terminal =>
              /\ (run.outcome = "Success") =
                     (FinalContent = [kind |-> "artifact", q |-> run.quality,
                                      size |-> FinalContent.size, src |-> FinalPath])
              /\ (run.outcome = "Failed") = (run.fault = "encode")
              /\ (run.outcome = "Canceled") = (run.cancel_phase = "single")

\* an unconstrained run reported as success, its artifact at the final path
C22_Witness ==
    /\ run.started
    /\ ~run.limited
    /\ run.outcome = "Success"
    /\ run.note = "single"
    /\ run.quality = MaxQuality
    /\ FinalContent.kind = "artifact"

\* the process objects that are not running and have a signal to emit
PendingSignals == {p \in DOMAIN procs : ~procs[p].running /\ procs[p].sigs # <<>>}

\* C23: a run reports one terminal outcome, not more; when an error event was
\* acted on (a crash), the finished event of the same process, whenever it is
\* delivered, is not acted on: no second report, no cleanup, no launch.
C23_OneOutcomePerRun ==
    /\ run.reports <= 1
    /\ Terminal = (run.reports = 1)
    /\ \A p \in PendingSignals :
          /\ on_ffmpeg_finished(Cur, p, FALSE, FALSE, FALSE) = Cur
          /\ on_ffmpeg_error(Cur, p) = Cur

\* a constrained run whose encoder crashed in the binary phase: the error
\* event was acted on and reported, the finished event is still to come and
\* no other process object is left
C23_Witness ==
    /\ run.limited
    /\ run.outcome = "Failed"
    /\ run.fault = "encode"
    /\ run.launches = 3
    /\ ~run.stale_seen
    /\ DOMAIN procs = PendingSignals
    /\ \E p \in PendingSignals : procs[p].sigs = <<"finished">>

\* a binary attempt is running
BinaryAttemptRunning ==
    /\ size_search # NoSearch
    /\ size_search.phase = "binary"
    /\ RunningProcesses = {ffmpeg_process}

\* C24: each binary attempt is launched at mid = floor((low + high) / 2),
\* with low <= mid <= high and quality_min < mid < quality_max; when its
\* result is processed, low = mid + 1 if it was within the target (adopted)
\* and high = mid - 1 if not (discarded), so high - low strictly decreases.
C24_BinaryStep ==
    /\ [](BinaryAttemptRunning =>
             /\ 2 * current_quality <= size_search.low + size_search.high
             /\ size_search.low + size_search.high < 2 * current_quality + 2
             /\ size_search.low <= current_quality
             /\ current_quality <= size_search.high
             /\ size_search.quality_min < current_quality
             /\ current_quality < size_search.quality_max)
    /\ [][(BinaryAttemptRunning /\ Len(run'.fit) = Len(run.fit) + 1) =>
             /\ size_search' # NoSearch
             /\ IF run'.fit[Len(run'.fit)]
                THEN /\ size_search'.low = current_quality + 1
                     /\ size_search'.high = size_search.high
                     /\ size_search'.best_quality = current_quality
                ELSE /\ size_search'.high = current_quality - 1
                     /\ size_search'.low = size_search.low
                     /\ Best(size_search') = Best(size_search)
             /\ size_search'.high - size_search'.low
                    < size_search.high - size_search.low]_vars

\* the third binary attempt is running, after one adopted and one discarded
C24_Witness ==
    /\ BinaryAttemptRunning
    /\ size_search.attempt = 3
    /\ size_search.low > size_search.quality_min + 1
    /\ size_search.high < size_search.quality_max - 1
    /\ size_search.low = current_quality
    /\ size_search.high = current_quality

\* the quality_min probe was measured within the target, after the
\* quality_max probe over it, and nothing was measured since
MinProbeFits == run.limited /\ Len(run.fit) = 2 /\ ~run.fit[1] /\ run.fit[2]

C26_FailedKeepsFinal ==
    /\ (run.limited /\ run.promotions = 0 /\ run.cancel_phase = "none") =>
          FinalContent = run.orig
    /\ (run.limited /\ run.outcome = "Failed") =>
          /\ run.promotions = 0
          /\ run.cancel_phase = "none"
          /\ run.fault \in {"encode", "stat", "replace"}
          /\ FinalContent = run.orig

\* a failing promotion in the binary phase, over an existing file
C26_Witness ==
    /\ run.limited
    /\ run.outcome = "Failed"
    /\ run.fault = "replace"
    /\ run.orig = OrigContent
    /\ FinalContent = OrigContent
    /\ size_search # NoSearch
    /\ size_search.attempt >= 1

\* a run is under way: started, its outcome not yet reported
Active == run.started /\ ~Terminal

\* every launched encode eventually delivers its completion event: again and
\* again no encode is running, or again and again one completes (weak
\* fairness of Completion, which is enabled exactly while an encode runs)
EncodesComplete == []<>(RunningProcesses = {}) \/ []<><<Completion>>_vars

\* C27: when every launched encode eventually delivers a completion event,
\* every run eventually reaches a terminal outcome (Done, Failed or
\* Canceled): the binary phase does not launch attempts forever.
C27_RunTerminates == EncodesComplete => (Active ~> Terminal)

\* a constrained run that ended Done after the most binary attempts the
\* largest range takes
C27_Witness ==
    /\ Done
    /\ run.quality = MaxQuality
    /\ size_search # NoSearch
    /\ size_search.attempt = CeilLog2(MaxQuality)
    /\ size_search.low > size_search.high

\* C28: in the binary phase every launched quality is strictly greater than
\* the current best_quality, so an attempt within the target is always
\* adopted: the best is the largest quality measured within the target, and
\* a within-target attempt is never rejected for a higher recorded best.
C28_BinaryAboveBest ==
    (run.limited /\ size_search # NoSearch /\ size_search.phase = "binary") =>
        /\ size_search.best_quality # None
        /\ size_search.best_quality < size_search.low
        /\ RunningProcesses # {} => current_quality > size_search.best_quality
        /\ FitQualities # {}
        /\ size_search.best_quality = Max(FitQualities)
        /\ \A i \in 1..Len(run.fit) :
              run.fit[i] => run.qualities[i] <= size_search.best_quality

\* the second binary attempt is running above the first, which was within
\* the target and adopted as best
C28_Witness ==
    /\ BinaryAttemptRunning
    /\ size_search.attempt = 2
    /\ size_search.best_quality > QualityMin
    /\ current_quality > size_search.best_quality + 1
    /\ Cardinality(FitQualities) = 2
    /\ Len(run.fit) = 3

\* C29: while a constrained run is active and a best is recorded, the best
\* artifact's temp file is on disk, with the recorded quality and size, and
\* its path is in temp_paths; so the file is there when the promotion is
\* attempted.
C29_BestFileKept ==
    /\ (run.limited /\ Active /\ BestSet) =>
          /\ size_search.best_temp_path \in DOMAIN fs
          /\ fs[size_search.best_temp_path] =
                 [kind |-> "artifact", q |-> size_search.best_quality,
                  size |-> size_search.best_size_bytes,
                  src |-> size_search.best_temp_path]
          /\ size_search.best_temp_path \in Range(size_search.temp_paths)
    /\ run.fault # "missing"

\* the best of the quality_min probe is on disk while the second binary
\* attempt runs, after a discarded attempt whose file was deleted
C29_Witness ==
    /\ BinaryAttemptRunning
    /\ size_search.attempt = 2
    /\ size_search.best_quality = QualityMin
    /\ size_search.best_temp_path \in DOMAIN fs
    /\ Cardinality({p \in run.alloc : Deletions(p) = 1}) = 2

\* the controller's idle state
IdleState(s) ==
    /\ s.ffmpeg_process = None
    /\ s.size_search = NoSearch
    /\ s.pending_out_path = None
    /\ s.final_out_path = None
    /\ s.current_quality = None
    /\ ~s.ffmpeg_finalized
    /\ ~s.job_was_canceled

Idle == IdleState(Cur)

\* C30: after every terminal outcome, of a constrained or an unconstrained
\* run, the controller is idle once _complete_job has returned: no process
\* handle, no search state, the paths and the quality cleared, both flags
\* false; a new run can be started.
C30_IdleAfterOutcome ==
    /\ Terminal = dialog_open
    /\ dialog_open => ffmpeg_process = None /\ IdleState(complete_job_return(Cur))
    /\ (~dialog_open /\ ~run.started) =>
          /\ Idle
          /\ make_badge(Cur, QualityMin, TRUE, 1, TRUE).run.launches = 1
          /\ make_badge(Cur, QualityMin, FALSE, 1, TRUE).ffmpeg_process # None

\* the controller is idle after a constrained run that ended Done over the
\* target: its artifact is at the final destination
C30_Witness ==
    /\ Idle
    /\ ~dialog_open
    /\ ~run.started
    /\ FinalContent.kind = "artifact"
    /\ FinalContent.src # FinalPath
    /\ FinalContent.size > MaxTargetMb * MiB

\* C31: with the slider's range 1..100 and max_attempts = 12 the binary phase
\* makes at most 7 attempts, so the branch that ends the run because
\* attempt >= max_attempts while low <= high is never taken: no run ends with
\* the "max attempts reached" note.
C31_MaxAttemptsUnreachable ==
    /\ run.note # "max_attempts"
    /\ size_search # NoSearch =>
          /\ size_search.quality_min = QualityMin
          /\ size_search.quality_max \in SliderMin..SliderMax
          /\ size_search.max_attempts = DefaultMaxAttempts
          /\ size_search.attempt <= 7
          /\ (size_search.phase = "binary" /\ size_search.low <= size_search.high)
                => ~attempts_exhausted(size_search)

\* a run from the top of the slider whose seventh binary attempt emptied the
\* interval
C31_Witness ==
    /\ Done
    /\ run.quality = SliderMax
    /\ size_search # NoSearch
    /\ size_search.phase = "binary"
    /\ size_search.attempt = 7
    /\ size_search.low > size_search.high
    /\ run.note = "best"
====
